---- MODULE Spec2Model ----
(***************************************************************************)
(* A model of mlua's scoped-lifetime bridge (src/src/scope.rs) and of the  *)
(* reference model it rests on (src/src/types.rs): Scope and its           *)
(* Destructors list, RegistryKey with its deferred unref list, the         *)
(* AppData container with its dynamic borrow checking, and ValueRef with   *)
(* its slots in the reference thread.                                      *)
(*                                                                         *)
(* The components do not share state, so each has its own specification    *)
(* (SpecScope, SpecRegistry, SpecAppData, SpecValueRef) over its own group *)
(* of variables; the other groups stay at their initial values.            *)
(* SpecScopeSend adds a second thread to the scope, SpecRegistrySetId the  *)
(* re-pointing of keys, SpecRegistryConc drops that run beside a sweep.    *)
(***************************************************************************)
EXTENDS Integers, Sequences, FiniteSets, TLC

\* ------------------------------------------------------------------ bounds

\* Items registered in one scope.
MaxObjs == 3
\* Depth of nested callback invocations (host closure -> engine -> closure).
MaxDepth == 2

VARIABLES
    \* ---- Scope (scope.rs)
    phase,          \* position of the scope: Open, GuardDropped, Draining, Dropping, Closed, Aborted
    lock,           \* how many times the scope's thread holds the engine lock
    nobjs,          \* number of engine objects created through the scope
    destructors,    \* Scope.destructors.0: the (reference, destructor) pairs
    taken,          \* `destructors` local of Destructors::drop, not yet iterated
    to_drop,        \* `to_drop` local of Destructors::drop: collected thunks
    engine,         \* engine-side object: its kind and whether its storage is intact
    payload,        \* where the host-side payload of an object is
    mt_registered,  \* objects whose per-instance metatable is registered
    callStack,      \* scoped closures currently executing, innermost last
    cell,           \* RefCell<F> of a create_function_mut closure: mutably borrowed?
    lastResult,     \* outcome of the last script-visible call or access
    invLog,         \* history: objects whose destructor was invoked, in order
    dropLog,        \* history: objects whose payload was dropped, in order
    panicking,      \* a payload drop panicked and the panic is unwinding
    host,           \* the host value behind an object: borrowed by the scope, owned by it, dropped
    gone,           \* history: objects destructed before the scope ended
    intruder        \* outcome of the last engine operation of another thread

scopeVars == <<phase, lock, nobjs, destructors, taken, to_drop, engine, payload,
               mt_registered, callStack, cell, lastResult, invLog, dropLog, panicking,
               host, gone, intruder>>

    \* ---- RegistryKey (types.rs)
VARIABLES
    keys,           \* the RegistryKey values: state, registry_id, unref_list (whose list)
    unref_list,     \* per interpreter: Arc<Mutex<Option<Vec<c_int>>>>
    registry,       \* per interpreter: the registry slots in use
    droppedSince,   \* history: per interpreter, the ids of the keys dropped since the last sweep
    lastSweep,      \* history: per interpreter, the ids the last sweep freed
    regLast,        \* outcome of the last RegistryKey operation
    sweeping,       \* per interpreter: the ids a running sweep has taken and not yet freed
    swept           \* history: per interpreter, the ids taken by the stepwise sweeps so far

    \* ---- AppData (types.rs)
VARIABLES
    container,      \* AppData.container: per type, the slot (absent or a value)
    cells,          \* per slot, the RefCell's borrow state: -1 writing, n >= 0 readers
    borrow,         \* AppData.borrow: the container-wide counter
    refs,           \* per type, the AppDataRef guards outstanding
    muts,           \* per type, the AppDataRefMut guards outstanding
    appLast         \* outcome of the last AppData operation

    \* ---- ValueRef (types.rs)
VARIABLES
    vrefs,          \* the ValueRef handles: state, lua, index, drop
    ref_thread,     \* per interpreter: the slots of the reference thread, a value or free
    lua_alive,      \* per interpreter: not yet destroyed, so that try_lock gives a guard
    doubleFree,     \* history: a slot was freed while it was already free
    vLast           \* outcome of the last ValueRef operation

concVars == <<sweeping, swept>>

regVars == <<keys, unref_list, registry, droppedSince, lastSweep, regLast, concVars>>

appVars == <<container, cells, borrow, refs, muts, appLast>>

vrefVars == <<vrefs, ref_thread, lua_alive, doubleFree, vLast>>

vars == <<scopeVars, regVars, appVars, vrefVars>>

\* ------------------------------------------------------------------ Scope

Objs == 1..MaxObjs

FnKinds == {"function", "function_mut"}
RefKinds == {"userdata_ref", "userdata_ref_mut", "any_userdata_ref", "any_userdata_ref_mut"}
UdKinds == RefKinds \cup {"userdata"}

NoResult == [obj |-> 0, out |-> "none", after |-> FALSE]

\* Scope::new: the scope holds the engine guard and an empty destructors list.
ScopeInit ==
    /\ phase = "Open"
    /\ lock = 1
    /\ nobjs = 0
    /\ destructors = <<>>
    /\ taken = <<>>
    /\ to_drop = <<>>
    /\ engine = [o \in Objs |-> [kind |-> "none", live |-> FALSE]]
    /\ payload = [o \in Objs |-> "none"]
    /\ mt_registered = {}
    /\ callStack = <<>>
    /\ cell = [o \in Objs |-> FALSE]
    /\ lastResult = NoResult
    /\ invLog = <<>>
    /\ dropLog = <<>>
    /\ panicking = FALSE
    /\ host = [o \in Objs |-> "none"]
    /\ gone = {}
    /\ intruder = NoResult

\* Fault: the pair is inserted at the front of the list.
PushDestructorFront(list, d) == <<d>> \o list

\* self.destructors.0.borrow_mut().push((ref, destructor))
PushDestructor(list, d) == Append(list, d)

\* Whether the engine-side storage owns the host value: the boxed closure of
\* create_callback and UserDataStorage::new_scoped(data) do,
\* UserDataStorage::new_ref(data) and new_ref_mut(data) hold a reference.
StorageOwns(k) == k \notin RefKinds

\* Fault: create_* can be called on a scope that is being dropped or is gone.
ScopeBorrowedAlways == TRUE

\* The `&'scope self` receiver of the create_* operations: a reference to the
\* scope exists only until its drop begins.
ScopeBorrowed == phase = "Open"

\* The part of every create_* that is common: a new engine object of kind k
\* whose payload lives in engine-side storage, and its destructor recorded.
Register(k) ==
    LET o == nobjs + 1 IN
    /\ ScopeBorrowed
    /\ nobjs < MaxObjs
    /\ nobjs' = o
    /\ engine' = [engine EXCEPT ![o] = [kind |-> k, live |-> TRUE]]
    /\ payload' = [payload EXCEPT ![o] = "engine"]
    /\ destructors' = PushDestructor(destructors, [ref |-> o, kind |-> k])
    /\ host' = [host EXCEPT ![o] = IF StorageOwns(k) THEN "owned" ELSE "borrowed"]
    /\ UNCHANGED <<regVars, appVars, vrefVars, gone, intruder, phase, lock, taken, to_drop, callStack, cell, lastResult,
                   invLog, dropLog, panicking>>

\* Scope::create_function (the closure is wrapped by create_callback).
CreateFunction == Register("function") /\ UNCHANGED mt_registered

\* Scope::create_function_mut: the closure sits in a RefCell and is then
\* registered through create_function.
CreateFunctionMut == Register("function_mut") /\ UNCHANGED mt_registered

\* Scope::create_userdata_ref: make_userdata(new_ref(data)), then seal_userdata.
CreateUserdataRef == Register("userdata_ref") /\ UNCHANGED mt_registered

\* Scope::create_userdata_ref_mut
CreateUserdataRefMut == Register("userdata_ref_mut") /\ UNCHANGED mt_registered

\* Scope::create_any_userdata_ref
CreateAnyUserdataRef == Register("any_userdata_ref") /\ UNCHANGED mt_registered

\* Scope::create_any_userdata_ref_mut
CreateAnyUserdataRefMut == Register("any_userdata_ref_mut") /\ UNCHANGED mt_registered

\* Scope::create_userdata: a metatable of the object's own is pushed and
\* registered (register_userdata_metatable(mt_ptr, None)) before the
\* destructor is recorded.
CreateUserdata ==
    /\ Register("userdata")
    /\ mt_registered' = mt_registered \cup {nobjs + 1}

\* ---- the destructors: engine-side invalidation, returning the thunks

\* rawlua.push_userdata_ref(&vref): an error when the userdata is destructed.
PushUserdataRefFails(o) == ~engine[o].live

\* util::take_userdata: the object gets the "destructed" metatable and its
\* storage is read out of the engine.
TakeUserdata(o) == [engine EXCEPT ![o].live = FALSE]

\* The destructor of create_callback: the boxed closure is taken out of the
\* function's upvalue (data.take()), and one thunk drops it.
CallbackDestructor(o) ==
    [engine |-> [engine EXCEPT ![o].live = FALSE],
     thunks |-> <<o>>,
     mt     |-> mt_registered]

\* Fault: the seal destructor leaves the storage in the engine.
SealDestructorNoTake(o) == [engine |-> engine, thunks |-> <<>>, mt |-> mt_registered]

\* The destructor of seal_userdata.
SealDestructor(o) ==
    IF PushUserdataRefFails(o)
    THEN [engine |-> engine, thunks |-> <<>>, mt |-> mt_registered]
    ELSE [engine |-> TakeUserdata(o), thunks |-> <<o>>, mt |-> mt_registered]

\* Fault: the userdata is taken without the check that it is still valid.
UserdataDestructorNoCheck(o) ==
    [engine |-> TakeUserdata(o), thunks |-> <<o>>, mt |-> mt_registered \ {o}]

\* The destructor of create_userdata: nothing when the userdata is no longer
\* valid; otherwise its metatable is deregistered, its storage taken, and one
\* thunk drops it.
UserdataDestructor(o) ==
    IF PushUserdataRefFails(o)
    THEN [engine |-> engine, thunks |-> <<>>, mt |-> mt_registered]
    ELSE [engine |-> TakeUserdata(o), thunks |-> <<o>>, mt |-> mt_registered \ {o}]

\* destructor(&lua, vref) for the pair d of the list.
Destructor(d) ==
    CASE d.kind \in FnKinds  -> CallbackDestructor(d.ref)
      [] d.kind \in RefKinds -> SealDestructor(d.ref)
      [] OTHER               -> UserdataDestructor(d.ref)

\* ---- scope end

\* The scope's fields are dropped in declaration order: `lua` (the guard the
\* scope was created with) first, `destructors` second.
ScopeDropGuard ==
    /\ phase = "Open"
    /\ callStack = <<>>
    /\ phase' = "GuardDropped"
    /\ lock' = lock - 1
    /\ UNCHANGED <<regVars, appVars, vrefVars, host, gone, intruder, nobjs, destructors, taken, to_drop, engine, payload, mt_registered,
                   callStack, cell, lastResult, invLog, dropLog, panicking>>

\* Fault: the list is cloned, not taken.
TakeRestClone(list) == list

\* mem::take(&mut *self.0.borrow_mut()): what is left in the scope's list.
TakeRest(list) == <<>>

\* Fault: the engine is locked whether or not there is a pair.
DropLocksAlways(list) == TRUE

\* destructors.first().map(|(vref, _)| vref.lua.lock()) is Some: the engine
\* is locked through the first pair's reference, if there is one.
DropLocks(list) == list # <<>>

\* Destructors::drop, up to the lock: the list is taken out of the RefCell
\* and the engine is locked unless the list is empty.
DestructorsDrop ==
    /\ phase = "GuardDropped"
    /\ taken' = destructors
    /\ destructors' = TakeRest(destructors)
    /\ IF DropLocks(destructors)
       THEN phase' = "Draining" /\ lock' = lock + 1
       ELSE phase' = "Closed" /\ lock' = lock
    /\ UNCHANGED <<regVars, appVars, vrefVars, host, gone, intruder, nobjs, to_drop, engine, payload, mt_registered, callStack, cell,
                   lastResult, invLog, dropLog, panicking>>

\* destructors.into_iter(): the pair the iteration visits next, and the rest.
NextPair(list) == Head(list)
RestPairs(list) == Tail(list)

\* Fault: dropping the storage drops the host value also when it holds
\* only a reference to it.
DropPayloadAlways(o) == [host EXCEPT ![o] = "dropped"]

\* drop(data) / drop(ud): the storage is dropped, and with it the host value
\* when the storage owns it.
DropPayload(o) ==
    IF StorageOwns(engine[o].kind) THEN [host EXCEPT ![o] = "dropped"] ELSE host

\* Fault: one phase only, each thunk runs right after its destructor.
DrainStepEager ==
    /\ phase = "Draining"
    /\ taken # <<>>
    /\ LET d == NextPair(taken)
           r == Destructor(d)
       IN /\ engine' = r.engine
          /\ mt_registered' = r.mt
          /\ payload' = [o \in Objs |->
                           IF \E i \in 1..Len(r.thunks) : r.thunks[i] = o
                           THEN "dropped" ELSE payload[o]]
          /\ dropLog' = dropLog \o r.thunks
          /\ host' = IF r.thunks = <<>> THEN host ELSE DropPayload(r.thunks[1])
          /\ invLog' = Append(invLog, d.ref)
    /\ taken' = RestPairs(taken)
    /\ phase' = IF RestPairs(taken) = <<>> THEN "Dropping" ELSE "Draining"
    /\ UNCHANGED <<regVars, appVars, vrefVars, gone, intruder, lock, nobjs, destructors, to_drop, callStack, cell,
                   lastResult, panicking>>

\* One turn of into_iter().flat_map(|(vref, destructor)| destructor(&lua, vref))
\* .collect(): the next pair's destructor runs and its thunks are collected.
DrainStep ==
    /\ phase = "Draining"
    /\ taken # <<>>
    /\ LET d == NextPair(taken)
           r == Destructor(d)
       IN /\ engine' = r.engine
          /\ mt_registered' = r.mt
          /\ to_drop' = to_drop \o r.thunks
          /\ payload' = [o \in Objs |->
                           IF \E i \in 1..Len(r.thunks) : r.thunks[i] = o
                           THEN "thunk" ELSE payload[o]]
          /\ invLog' = Append(invLog, d.ref)
    /\ taken' = RestPairs(taken)
    /\ phase' = IF RestPairs(taken) = <<>> THEN "Dropping" ELSE "Draining"
    /\ UNCHANGED <<regVars, appVars, vrefVars, host, gone, intruder, lock, nobjs, destructors, callStack, cell, lastResult, dropLog,
                   panicking>>

\* Whether dropping the payload of o can run host code that panics: the
\* closure's captures and an owned T can, the reference wrapper of a borrowed
\* T cannot.
CanPanic(o) == engine[o].kind \in FnKinds \cup {"userdata"}

\* Fault: the elements after the one whose drop panicked are leaked.
VecDropAfterPanicLeaks(rest) == <<>>

\* drop(to_drop) after an element's drop has panicked: the drop of a Vec
\* goes on with the elements that are left while the panic unwinds.
VecDropAfterPanic(rest) == rest

\* One element of drop(to_drop): the thunk is dropped and with it the payload
\* it captured. The drop of a Vec goes on with the remaining elements when one
\* element's drop panics; a second panic while unwinding aborts the process.
DropThunk ==
    /\ phase = "Dropping"
    /\ to_drop # <<>>
    /\ LET o == Head(to_drop) IN
       /\ payload' = [payload EXCEPT ![o] = "dropped"]
       /\ host' = DropPayload(o)
       /\ dropLog' = Append(dropLog, o)
       /\ \E p \in BOOLEAN :
            /\ p => CanPanic(o)
            /\ IF p /\ panicking
               THEN /\ phase' = "Aborted"
                    /\ panicking' = panicking
                    /\ to_drop' = Tail(to_drop)
               ELSE /\ phase' = phase
                    /\ panicking' = (panicking \/ p)
                    /\ to_drop' = IF p THEN VecDropAfterPanic(Tail(to_drop))
                                        ELSE Tail(to_drop)
    /\ UNCHANGED <<regVars, appVars, vrefVars, gone, intruder, lock, nobjs, destructors, taken, engine, mt_registered, callStack,
                   cell, lastResult, invLog>>

\* The end of Destructors::drop: the lock taken for the drain is released
\* (also when a panic unwinds through it).
DropFinish ==
    /\ phase = "Dropping"
    /\ to_drop = <<>>
    /\ phase' = "Closed"
    /\ lock' = lock - 1
    /\ UNCHANGED <<regVars, appVars, vrefVars, host, gone, intruder, nobjs, destructors, taken, to_drop, engine, payload, mt_registered,
                   callStack, cell, lastResult, invLog, dropLog, panicking>>

\* ---- what scripts do with the objects

\* Script code runs in the scope's body, and after the scope has ended.
ScriptRuns == phase \in {"Open", "Closed"}

Result(o, out) == [obj |-> o, out |-> out, after |-> (phase = "Closed")]

\* Fault: the closure is called without the RefCell's check.
TryBorrowMutNeverFails(o) == FALSE

\* The RefCell of a create_function_mut closure: try_borrow_mut() fails while
\* an earlier invocation holds the RefMut.
TryBorrowMutFails(o) == cell[o]

\* A script calls function o. The engine's callback entry reports
\* CallbackDestructed when the upvalue's closure has been taken; otherwise the
\* scoped closure runs: a create_function_mut closure first borrows its
\* RefCell and reports RecursiveMutCallback when it cannot.
CallFunction(o) ==
    /\ ScriptRuns
    /\ o <= nobjs
    /\ engine[o].kind \in FnKinds
    /\ IF ~engine[o].live
       THEN /\ lastResult' = Result(o, "CallbackDestructed")
            /\ UNCHANGED <<regVars, appVars, vrefVars, host, gone, intruder, callStack, cell>>
       ELSE IF engine[o].kind = "function_mut" /\ TryBorrowMutFails(o)
       THEN /\ lastResult' = Result(o, "RecursiveMutCallback")
            /\ UNCHANGED <<regVars, appVars, vrefVars, host, gone, intruder, callStack, cell>>
       ELSE /\ Len(callStack) < MaxDepth
            /\ callStack' = Append(callStack, o)
            /\ cell' = IF engine[o].kind = "function_mut"
                       THEN [cell EXCEPT ![o] = TRUE] ELSE cell
            /\ lastResult' = Result(o, "running")
    /\ UNCHANGED <<regVars, appVars, vrefVars, host, gone, intruder, phase, lock, nobjs, destructors, taken, to_drop, engine, payload,
                   mt_registered, invLog, dropLog, panicking>>

\* Fault: the RefMut is leaked when the call ends.
ReleaseRefMutNever(o) == cell

\* The temporary RefMut of `(*func.try_borrow_mut()...?)(lua, args)` is
\* dropped when the call expression has been evaluated.
ReleaseRefMut(o) == [cell EXCEPT ![o] = FALSE]

\* The innermost running closure returns (a value or an error of its own);
\* the RefMut of a create_function_mut closure is dropped with the call.
Return ==
    /\ callStack # <<>>
    /\ LET o == callStack[Len(callStack)] IN
       /\ cell' = ReleaseRefMut(o)
       /\ \E out \in {"ok", "error"} : lastResult' = Result(o, out)
    /\ callStack' = SubSeq(callStack, 1, Len(callStack) - 1)
    /\ UNCHANGED <<regVars, appVars, vrefVars, host, gone, intruder, phase, lock, nobjs, destructors, taken, to_drop, engine, payload,
                   mt_registered, invLog, dropLog, panicking>>

\* A script reads userdata o through one of its bound getters: the object's
\* data while its storage is intact, UserDataDestructed once it carries the
\* "destructed" metatable.
AccessUserdata(o) ==
    /\ ScriptRuns
    /\ o <= nobjs
    /\ engine[o].kind \in UdKinds
    /\ lastResult' = Result(o, IF engine[o].live THEN "ok" ELSE "UserDataDestructed")
    /\ UNCHANGED <<regVars, appVars, vrefVars, host, gone, intruder, phase, lock, nobjs, destructors, taken, to_drop, engine, payload,
                   mt_registered, callStack, cell, invLog, dropLog, panicking>>

\* The userdata is destructed while the scope is still open (destroyed by the
\* host through its handle, or finalized by the engine).
DestroyUserdata(o) ==
    /\ phase = "Open"
    /\ o <= nobjs
    /\ engine[o].kind \in UdKinds
    /\ engine[o].live
    /\ engine' = TakeUserdata(o)
    /\ payload' = [payload EXCEPT ![o] = "dropped"]
    /\ host' = DropPayload(o)
    /\ gone' = gone \cup {o}
    /\ UNCHANGED <<regVars, appVars, vrefVars, intruder, phase, lock, nobjs, destructors, taken, to_drop, mt_registered,
                   callStack, cell, lastResult, invLog, dropLog, panicking>>

\* With the engine handle shared across threads: a second thread takes the
\* engine lock when the scope's thread does not hold it, calls function o
\* and releases the lock again.
OtherThreadCall(o) ==
    /\ lock = 0
    /\ o <= nobjs
    /\ engine[o].kind \in FnKinds
    /\ intruder' = Result(o, IF engine[o].live THEN "ran" ELSE "CallbackDestructed")
    /\ UNCHANGED <<regVars, appVars, vrefVars, host, gone, phase, lock, nobjs, destructors, taken,
                   to_drop, engine, payload, mt_registered, callStack, cell, lastResult, invLog,
                   dropLog, panicking>>

\* ---- history helpers

Count(seq, x) == Cardinality({i \in 1..Len(seq) : seq[i] = x})

ScopeNext ==
    \/ CreateFunction
    \/ CreateFunctionMut
    \/ CreateUserdataRef
    \/ CreateUserdataRefMut
    \/ CreateAnyUserdataRef
    \/ CreateAnyUserdataRefMut
    \/ CreateUserdata
    \/ ScopeDropGuard
    \/ DestructorsDrop
    \/ DrainStep
    \/ DropThunk
    \/ DropFinish
    \/ \E o \in Objs : CallFunction(o)
    \/ Return
    \/ \E o \in Objs : AccessUserdata(o)
    \/ \E o \in Objs : DestroyUserdata(o)

\* ------------------------------------------------------------ RegistryKey

\* Keys created over a run, and the largest registry slot id.
MaxKeys == 2
MaxRef == 1

\* ffi::LUA_REFNIL: the id of the key of a nil value, which owns no slot.
LUA_REFNIL == -1

\* Two interpreter instances, each with a registry and an unref list of its own.
Luas == {"lua1", "lua2"}
KeyIds == 1..MaxKeys
RefIds == 0..MaxRef

NoKey == [state |-> "none", registry_id |-> LUA_REFNIL, unref_list |-> "lua1",
          made |-> LUA_REFNIL]
NoRegOp == [op |-> "none", key |-> 0, other |-> 0, id |-> LUA_REFNIL, flag |-> FALSE]

\* Some(list) / None
SomeList(list) == [some |-> TRUE, list |-> list]
NoneList == [some |-> FALSE, list |-> <<>>]

Range(seq) == {seq[i] : i \in 1..Len(seq)}

RegInit ==
    /\ keys = [k \in KeyIds |-> NoKey]
    /\ unref_list = [l \in Luas |-> SomeList(<<>>)]
    /\ registry = [l \in Luas |-> {}]
    /\ droppedSince = [l \in Luas |-> <<>>]
    /\ lastSweep = [l \in Luas |-> <<>>]
    /\ regLast = NoRegOp
    /\ sweeping = [l \in Luas |-> <<>>]
    /\ swept = [l \in Luas |-> <<>>]

\* RegistryKey::new(id, unref_list); `made` is history, the id the key was
\* created with.
RegistryKeyNew(id, l) ==
    [state |-> "alive", registry_id |-> id, unref_list |-> l, made |-> id]

\* RegistryKey::id
KeyId(key) == key.registry_id

\* The interpreter stores a value in its registry and hands out a key: the key
\* of a nil value gets LUA_REFNIL and no slot, any other value the first free
\* slot. The key shares the interpreter's unref list.
CreateRegistryValue(l, nil) ==
    /\ unref_list[l].some
    /\ \E k \in KeyIds :
        /\ keys[k].state = "none"
        /\ \A j \in KeyIds : j < k => keys[j].state # "none"
        /\ IF nil
           THEN /\ keys' = [keys EXCEPT ![k] = RegistryKeyNew(LUA_REFNIL, l)]
                /\ registry' = registry
                /\ regLast' = [NoRegOp EXCEPT !.op = "create", !.key = k]
           ELSE \E id \in RefIds :
                /\ id \notin registry[l]
                /\ \A j \in RefIds : j < id => j \in registry[l]
                /\ keys' = [keys EXCEPT ![k] = RegistryKeyNew(id, l)]
                /\ registry' = [registry EXCEPT ![l] = @ \cup {id}]
                /\ regLast' = [NoRegOp EXCEPT !.op = "create", !.key = k, !.id = id]
    /\ UNCHANGED <<scopeVars, appVars, vrefVars, concVars, unref_list, droppedSince, lastSweep>>

\* Fault: the new id is not stored.
SetIdIgnored(key, id) == key

\* RegistryKey::set_id
SetId(key, id) == [key EXCEPT !.registry_id = id]

\* The interpreter replaces the value of a live key: a key of nil that gets a
\* value is given the first free slot, a key with a slot that gets nil has
\* its slot freed at once and is given LUA_REFNIL, both through set_id; in
\* the other two cases the id stays as it is.
ReplaceRegistryValue(k, nil) ==
    /\ keys[k].state = "alive"
    /\ unref_list[keys[k].unref_list].some
    /\ LET l  == keys[k].unref_list
           id == KeyId(keys[k])
       IN IF nil /\ id > LUA_REFNIL
          THEN /\ registry' = [registry EXCEPT ![l] = @ \ {id}]
               /\ keys' = [keys EXCEPT ![k] = SetId(@, LUA_REFNIL)]
               /\ regLast' = [NoRegOp EXCEPT !.op = "set_id", !.key = k, !.id = LUA_REFNIL]
          ELSE IF ~nil /\ id = LUA_REFNIL
          THEN \E new \in RefIds :
               /\ new \notin registry[l]
               /\ \A j \in RefIds : j < new => j \in registry[l]
               /\ registry' = [registry EXCEPT ![l] = @ \cup {new}]
               /\ keys' = [keys EXCEPT ![k] = SetId(@, new)]
               /\ regLast' = [NoRegOp EXCEPT !.op = "set_id", !.key = k, !.id = new]
          ELSE /\ regLast' = [NoRegOp EXCEPT !.op = "replace", !.key = k, !.id = id]
               /\ UNCHANGED <<keys, registry>>
    /\ UNCHANGED <<scopeVars, appVars, vrefVars, concVars, unref_list, droppedSince, lastSweep>>

\* Fault: the push is not serialized with the other users of the list, and
\* what they have pushed is overwritten.
UnrefListAfterDropLostUpdate(ul, id) ==
    IF id > LUA_REFNIL /\ ul.some THEN SomeList(<<id>>) ELSE ul

\* Fault: the nil slot is pushed like any other id.
UnrefListAfterDropNoNilCheck(ul, id) ==
    IF ul.some THEN SomeList(Append(ul.list, id)) ELSE ul

\* Drop for RegistryKey: what it does to the shared list. The nil slot is not
\* collected, and nothing is pushed once the list is None.
UnrefListAfterDrop(ul, id) ==
    IF id > LUA_REFNIL /\ ul.some
    THEN SomeList(Append(ul.list, id))
    ELSE ul

\* Drop for RegistryKey
KeyDrop(k) ==
    /\ keys[k].state = "alive"
    /\ LET id == KeyId(keys[k])
           l  == keys[k].unref_list
       IN /\ unref_list' = [unref_list EXCEPT ![l] = UnrefListAfterDrop(@, id)]
          /\ droppedSince' = [droppedSince EXCEPT ![l] = Append(@, id)]
          /\ regLast' = [NoRegOp EXCEPT !.op = "drop", !.key = k, !.id = id,
                           !.flag = (unref_list'[l] = SomeList(Append(unref_list[l].list, id)))]
    /\ keys' = [keys EXCEPT ![k].state = "dropped"]
    /\ UNCHANGED <<scopeVars, appVars, vrefVars, concVars, registry, lastSweep>>

\* Drop for RegistryKey on a thread of its own, first step: the id is loaded
\* (`let registry_id = self.id()`); the key is no longer usable.
DropLoad(k) ==
    /\ keys[k].state = "alive"
    /\ keys' = [keys EXCEPT ![k].state = "dropping"]
    /\ regLast' = [NoRegOp EXCEPT !.op = "load", !.key = k, !.id = KeyId(keys[k])]
    /\ UNCHANGED <<scopeVars, appVars, vrefVars, concVars, unref_list, registry, droppedSince,
                   lastSweep>>

\* Second step: with the list's Mutex held, the id is pushed.
DropPush(k) ==
    /\ keys[k].state = "dropping"
    /\ LET id == KeyId(keys[k])
           l  == keys[k].unref_list
       IN /\ unref_list' = [unref_list EXCEPT ![l] = UnrefListAfterDrop(@, id)]
          /\ droppedSince' = [droppedSince EXCEPT ![l] = Append(@, id)]
          /\ regLast' = [NoRegOp EXCEPT !.op = "drop", !.key = k, !.id = id,
                           !.flag = (unref_list'[l] = SomeList(Append(unref_list[l].list, id)))]
    /\ keys' = [keys EXCEPT ![k].state = "dropped"]
    /\ UNCHANGED <<scopeVars, appVars, vrefVars, concVars, registry, lastSweep>>

\* The sweep, first step: with the list's Mutex held, the list is replaced
\* by an empty one. One sweep of an interpreter runs at a time.
SweepTake(l) ==
    /\ unref_list[l].some
    /\ sweeping[l] = <<>>
    /\ unref_list[l].list # <<>>
    /\ unref_list' = [unref_list EXCEPT ![l] = SomeList(<<>>)]
    /\ sweeping' = [sweeping EXCEPT ![l] = unref_list[l].list]
    /\ swept' = [swept EXCEPT ![l] = @ \o unref_list[l].list]
    /\ lastSweep' = [lastSweep EXCEPT ![l] = unref_list[l].list]
    /\ droppedSince' = [droppedSince EXCEPT ![l] = <<>>]
    /\ regLast' = [NoRegOp EXCEPT !.op = "sweep"]
    /\ UNCHANGED <<scopeVars, appVars, vrefVars, keys, registry>>

\* The sweep, next steps: the ids taken are freed in the registry one by one.
SweepUnref(l) ==
    /\ sweeping[l] # <<>>
    /\ registry' = [registry EXCEPT ![l] = @ \ {Head(sweeping[l])}]
    /\ sweeping' = [sweeping EXCEPT ![l] = Tail(@)]
    /\ regLast' = [NoRegOp EXCEPT !.op = "unref", !.id = Head(sweeping[l])]
    /\ UNCHANGED <<scopeVars, appVars, vrefVars, keys, unref_list, droppedSince, lastSweep, swept>>

\* Fault: the key is not forgotten, so its Drop runs at the end of take.
UnrefListAfterTakeDropped(ul, id) ==
    IF id > LUA_REFNIL /\ ul.some THEN SomeList(Append(ul.list, id)) ELSE ul

\* RegistryKey::take: what it does to the shared list. The Arc is read out
\* and released and the key is forgotten, so its Drop never runs.
UnrefListAfterTake(ul, id) == ul

\* RegistryKey::take
KeyTake(k) ==
    /\ keys[k].state = "alive"
    /\ LET id == KeyId(keys[k])
           l  == keys[k].unref_list
       IN /\ unref_list' = [unref_list EXCEPT ![l] = UnrefListAfterTake(@, id)]
          /\ regLast' = [NoRegOp EXCEPT !.op = "take", !.key = k, !.id = id,
                           !.flag = (unref_list' # unref_list)]
    /\ keys' = [keys EXCEPT ![k].state = "taken"]
    /\ UNCHANGED <<scopeVars, appVars, vrefVars, concVars, registry, droppedSince, lastSweep>>

\* The ids of the keys dropped since the last sweep that own a slot.
Enqueued(l) == SelectSeq(droppedSince[l], LAMBDA id : id > LUA_REFNIL)

\* The sweep of the interpreter's owner (expire_registry_values): the list is
\* replaced by an empty one and every id of it is freed in the registry.
ExpireRegistryValues(l) ==
    /\ unref_list[l].some
    /\ unref_list' = [unref_list EXCEPT ![l] = SomeList(<<>>)]
    /\ registry' = [registry EXCEPT ![l] = @ \ Range(unref_list[l].list)]
    /\ lastSweep' = [lastSweep EXCEPT ![l] = unref_list[l].list]
    /\ droppedSince' = [droppedSince EXCEPT ![l] = <<>>]
    /\ regLast' = [NoRegOp EXCEPT !.op = "sweep",
                     !.flag = /\ unref_list[l].list = Enqueued(l)
                              /\ Cardinality(Range(unref_list[l].list)) = Len(unref_list[l].list)]
    /\ UNCHANGED <<scopeVars, appVars, vrefVars, concVars, keys>>

\* The interpreter is dropped: its unref list becomes None and its registry
\* is gone. Keys may outlive it.
CloseLua(l) ==
    /\ unref_list[l].some
    /\ unref_list' = [unref_list EXCEPT ![l] = NoneList]
    /\ registry' = [registry EXCEPT ![l] = {}]
    /\ regLast' = [NoRegOp EXCEPT !.op = "close"]
    /\ UNCHANGED <<scopeVars, appVars, vrefVars, concVars, keys, droppedSince, lastSweep>>

\* Fault: only the ids are compared.
RegistryKeyEqIdOnly(a, b) == a.registry_id = b.registry_id

\* PartialEq for RegistryKey: same id and Arc::ptr_eq of the two lists.
RegistryKeyEq(a, b) == KeyId(a) = KeyId(b) /\ a.unref_list = b.unref_list

\* Two live keys are compared.
KeyEq(a, b) ==
    /\ keys[a].state = "alive"
    /\ keys[b].state = "alive"
    /\ regLast' = [NoRegOp EXCEPT !.op = "eq", !.key = a, !.other = b,
                     !.flag = RegistryKeyEq(keys[a], keys[b])]
    /\ UNCHANGED <<scopeVars, appVars, vrefVars, concVars, keys, unref_list, registry, droppedSince, lastSweep>>

RegNext ==
    \/ \E l \in Luas, nil \in BOOLEAN : CreateRegistryValue(l, nil)
    \/ \E k \in KeyIds : KeyDrop(k)
    \/ \E k \in KeyIds : KeyTake(k)
    \/ \E l \in Luas : ExpireRegistryValues(l)
    \/ \E l \in Luas : CloseLua(l)
    \/ \E a, b \in KeyIds : KeyEq(a, b)

\* ---------------------------------------------------------------- AppData

\* Borrow guards outstanding at a time.
MaxGuards == 3

\* The host types stored, and the values offered for a slot.
Types == {"A", "B"}
Vals == {"x", "y"}

Absent == [present |-> FALSE, val |-> "none"]
Slot(v) == [present |-> TRUE, val |-> v]

NoAppOp == [op |-> "none", type |-> "A", res |-> "none", val |-> "none", ret |-> "none",
            same |-> TRUE, out |-> 0, conf |-> FALSE]

\* AppData::default()
AppInit ==
    /\ container = [t \in Types |-> Absent]
    /\ cells = [t \in Types |-> 0]
    /\ borrow = 0
    /\ refs = [t \in Types |-> 0]
    /\ muts = [t \in Types |-> 0]
    /\ appLast = NoAppOp

RECURSIVE SumOver(_, _)
SumOver(f, S) ==
    IF S = {} THEN 0
    ELSE LET t == CHOOSE x \in S : TRUE IN f[t] + SumOver(f, S \ {t})

\* The AppDataRef and AppDataRefMut guards that are alive.
Outstanding == SumOver(refs, Types) + SumOver(muts, Types)

\* Fault: the container-wide counter is not consulted.
ContainerBorrowedNever == FALSE

\* self.borrow.get() != 0
ContainerBorrowed == borrow # 0

\* AppData::try_insert: Err(data) while the container is borrowed; otherwise
\* the slot gets a new RefCell with the value and the old value is returned.
TryInsert(t, v) ==
    IF ContainerBorrowed
    THEN [res |-> "err", ret |-> v, container |-> container, cells |-> cells]
    ELSE [res |-> "ok", ret |-> container[t].val,
          container |-> [container EXCEPT ![t] = Slot(v)],
          cells |-> [cells EXCEPT ![t] = 0]]

AppOp(op, t, r, v) ==
    [op |-> op, type |-> t, res |-> r.res, val |-> v, ret |-> r.ret,
     same |-> (r.container = container /\ r.cells = cells),
     out |-> Outstanding, conf |-> FALSE]

\* AppData::try_insert
AppTryInsert(t, v) ==
    LET r == TryInsert(t, v) IN
    /\ container' = r.container
    /\ cells' = r.cells
    /\ appLast' = AppOp("try_insert", t, r, v)
    /\ UNCHANGED <<scopeVars, regVars, vrefVars, borrow, refs, muts>>

\* AppData::insert: try_insert, and a panic on Err.
AppInsert(t, v) ==
    LET r == TryInsert(t, v) IN
    /\ container' = r.container
    /\ cells' = r.cells
    /\ appLast' = AppOp("insert", t, [r EXCEPT !.res = IF r.res = "err" THEN "panic" ELSE "ok"], v)
    /\ UNCHANGED <<scopeVars, regVars, vrefVars, borrow, refs, muts>>

\* AppData::remove: a panic while the container is borrowed; otherwise the
\* slot is removed and its value returned (None when there was none).
Remove(t) ==
    IF ContainerBorrowed
    THEN [res |-> "panic", ret |-> "none", container |-> container, cells |-> cells]
    ELSE [res |-> IF container[t].present THEN "ok" ELSE "none", ret |-> container[t].val,
          container |-> [container EXCEPT ![t] = Absent],
          cells |-> [cells EXCEPT ![t] = 0]]

\* AppData::remove
AppRemove(t) ==
    LET r == Remove(t) IN
    /\ container' = r.container
    /\ cells' = r.cells
    /\ appLast' = AppOp("remove", t, r, "none")
    /\ UNCHANGED <<scopeVars, regVars, vrefVars, borrow, refs, muts>>

\* Fault: a shared borrow is refused while any guard of any type is alive.
CellBorrowFailsGlobal(t) == borrow # 0

\* RefCell::borrow() of the slot panics while the slot is mutably borrowed.
CellBorrowFails(t) == cells[t] < 0

\* Fault: an exclusive borrow is refused only for another exclusive borrow.
CellBorrowMutFailsWriterOnly(t) == cells[t] < 0

\* RefCell::borrow_mut() of the slot panics while the slot is borrowed at all.
CellBorrowMutFails(t) == cells[t] # 0

\* self.borrow.set(self.borrow.get() + 1)
CounterUp(b) == b + 1

\* Fault: a dropped guard leaves the counter as it was.
CounterDownNever(b) == b

\* self.borrow.set(self.borrow.get() - 1)
CounterDown(b) == b - 1

\* AppData::borrow: None when the type has no slot; a panic of the RefCell
\* when the slot is mutably borrowed; otherwise a guard.
AppBorrow(t) ==
    LET conf == muts[t] > 0
        base == [NoAppOp EXCEPT !.op = "borrow", !.type = t, !.out = Outstanding, !.conf = conf]
    IN
    /\ IF ~container[t].present
       THEN /\ appLast' = [base EXCEPT !.res = "none"]
            /\ UNCHANGED <<cells, borrow, refs>>
       ELSE IF CellBorrowFails(t)
       THEN /\ appLast' = [base EXCEPT !.res = "panic"]
            /\ UNCHANGED <<cells, borrow, refs>>
       ELSE /\ Outstanding < MaxGuards
            /\ cells' = [cells EXCEPT ![t] = @ + 1]
            /\ borrow' = CounterUp(borrow)
            /\ refs' = [refs EXCEPT ![t] = @ + 1]
            /\ appLast' = [base EXCEPT !.res = "ok"]
    /\ UNCHANGED <<scopeVars, regVars, vrefVars, container, muts>>

\* AppData::borrow_mut: None when the type has no slot; a panic of the
\* RefCell when the slot is borrowed; otherwise a guard.
AppBorrowMut(t) ==
    LET conf == muts[t] > 0 \/ refs[t] > 0
        base == [NoAppOp EXCEPT !.op = "borrow_mut", !.type = t, !.out = Outstanding, !.conf = conf]
    IN
    /\ IF ~container[t].present
       THEN /\ appLast' = [base EXCEPT !.res = "none"]
            /\ UNCHANGED <<cells, borrow, muts>>
       ELSE IF CellBorrowMutFails(t)
       THEN /\ appLast' = [base EXCEPT !.res = "panic"]
            /\ UNCHANGED <<cells, borrow, muts>>
       ELSE /\ Outstanding < MaxGuards
            /\ cells' = [cells EXCEPT ![t] = -1]
            /\ borrow' = CounterUp(borrow)
            /\ muts' = [muts EXCEPT ![t] = @ + 1]
            /\ appLast' = [base EXCEPT !.res = "ok"]
    /\ UNCHANGED <<scopeVars, regVars, vrefVars, container, refs>>

\* Drop for AppDataRef: the counter goes down, then the Ref is released.
AppDataRefDrop(t) ==
    /\ refs[t] > 0
    /\ refs' = [refs EXCEPT ![t] = @ - 1]
    /\ borrow' = CounterDown(borrow)
    /\ cells' = [cells EXCEPT ![t] = @ - 1]
    /\ appLast' = [NoAppOp EXCEPT !.op = "drop_ref", !.type = t, !.out = Outstanding]
    /\ UNCHANGED <<scopeVars, regVars, vrefVars, container, muts>>

\* Drop for AppDataRefMut: the counter goes down, then the RefMut is released.
AppDataRefMutDrop(t) ==
    /\ muts[t] > 0
    /\ muts' = [muts EXCEPT ![t] = @ - 1]
    /\ borrow' = CounterDown(borrow)
    /\ cells' = [cells EXCEPT ![t] = 0]
    /\ appLast' = [NoAppOp EXCEPT !.op = "drop_ref_mut", !.type = t, !.out = Outstanding]
    /\ UNCHANGED <<scopeVars, regVars, vrefVars, container, refs>>

AppNext ==
    \/ \E t \in Types, v \in Vals : AppTryInsert(t, v)
    \/ \E t \in Types, v \in Vals : AppInsert(t, v)
    \/ \E t \in Types : AppRemove(t)
    \/ \E t \in Types : AppBorrow(t)
    \/ \E t \in Types : AppBorrowMut(t)
    \/ \E t \in Types : AppDataRefDrop(t)
    \/ \E t \in Types : AppDataRefMutDrop(t)

\* --------------------------------------------------------------- ValueRef

\* Handles created over a run, and slots of one reference thread.
MaxHandles == 3
MaxSlots == 2

Handles == 1..MaxHandles
Slots == 1..MaxSlots

\* Engine values as raw equality sees them: every value pushed is an object
\* of its own, named after the handle made for it, so that two slots are
\* raw-equal exactly when one was cloned from the other.
LuaVals == Handles

\* A slot of the reference thread that holds no value.
Free == 0

NoHandle == [state |-> "none", lua |-> "lua1", index |-> 0, drop |-> FALSE]

NoVrefOp == [op |-> "none", h |-> 0, other |-> 0, res |-> "none",
             freed |-> {}, fresh |-> FALSE, rawequal |-> FALSE]

VrefInit ==
    /\ vrefs = [h \in Handles |-> NoHandle]
    /\ ref_thread = [l \in Luas |-> [s \in Slots |-> Free]]
    /\ lua_alive = [l \in Luas |-> TRUE]
    /\ doubleFree = FALSE
    /\ vLast = NoVrefOp

\* Handles are numbered in the order they are made.
NextHandle(h) ==
    /\ vrefs[h].state = "none"
    /\ \A g \in Handles : g < h => vrefs[g].state # "none"

\* ValueRef::new
ValueRefNew(l, i) == [state |-> "live", lua |-> l, index |-> i, drop |-> TRUE]

\* The slots an operation freed.
FreedBy(before, after) ==
    {ls \in Luas \X Slots : before[ls[1]][ls[2]] # Free /\ after[ls[1]][ls[2]] = Free}

\* The slot the reference thread hands out next: its lowest free one.
FreeSlot(rt, l, s) ==
    /\ rt[l][s] = Free
    /\ \A r \in Slots : r < s => rt[l][r] # Free

\* A value is pushed and popped into a free slot of the reference thread,
\* and ValueRef::new wraps the slot.
VrefCreate(h, l, s, v) ==
    /\ NextHandle(h)
    /\ v = h
    /\ lua_alive[l]
    /\ FreeSlot(ref_thread, l, s)
    /\ ref_thread' = [ref_thread EXCEPT ![l][s] = v]
    /\ vrefs' = [vrefs EXCEPT ![h] = ValueRefNew(l, s)]
    /\ vLast' = [NoVrefOp EXCEPT !.op = "create", !.h = h, !.fresh = TRUE]
    /\ UNCHANGED <<scopeVars, regVars, appVars, lua_alive, doubleFree>>

\* A handle with drop: false for the slot another handle owns.
VrefAlias(h, g) ==
    /\ NextHandle(h)
    /\ vrefs[g].state = "live"
    /\ vrefs[g].drop
    /\ lua_alive[vrefs[g].lua]
    /\ vrefs' = [vrefs EXCEPT ![h] = [vrefs[g] EXCEPT !.drop = FALSE]]
    /\ vLast' = [NoVrefOp EXCEPT !.op = "alias", !.h = h, !.other = g]
    /\ UNCHANGED <<scopeVars, regVars, appVars, ref_thread, lua_alive, doubleFree>>

\* RawLua::clone_ref: the value of the slot is copied into a free slot and
\* ValueRef::new wraps that slot.
CloneRef(rt, v, s) == [rt EXCEPT ![v.lua][s] = rt[v.lua][v.index]]

\* Clone for ValueRef: lock() panics when the interpreter is gone.
VrefClone(h, g) ==
    /\ NextHandle(h)
    /\ vrefs[g].state = "live"
    /\ IF ~lua_alive[vrefs[g].lua]
       THEN /\ vLast' = [NoVrefOp EXCEPT !.op = "clone", !.h = h, !.other = g, !.res = "panic"]
            /\ UNCHANGED <<vrefs, ref_thread>>
       ELSE /\ ref_thread[vrefs[g].lua][vrefs[g].index] # Free
            /\ \E s \in Slots :
                 /\ vrefs' = [vrefs EXCEPT ![h] = ValueRefNew(vrefs[g].lua, s)]
                 /\ ref_thread' = CloneRef(ref_thread, vrefs[g], s)
                 /\ FreeSlot(ref_thread, vrefs[g].lua, s)
                 /\ vLast' = [NoVrefOp EXCEPT !.op = "clone", !.h = h, !.other = g, !.res = "ok",
                                              !.fresh = (ref_thread[vrefs[g].lua][s] = Free)]
    /\ UNCHANGED <<scopeVars, regVars, appVars, lua_alive, doubleFree>>

\* RawLua::drop_ref: the slot is cleared and given back to the free list.
DropRef(rt, v) == [rt EXCEPT ![v.lua][v.index] = Free]

\* Fault: the drop flag is not looked at.
ShouldDropRefNoFlag(v, locked) == locked

\* `if self.drop { if let Some(lua) = self.lua.try_lock() { ... } }`
ShouldDropRef(v, locked) == v.drop /\ locked

\* Drop for ValueRef
VrefDrop(h) ==
    LET v == vrefs[h] IN
    /\ v.state = "live"
    /\ vrefs' = [vrefs EXCEPT ![h].state = "dropped"]
    /\ IF ShouldDropRef(v, lua_alive[v.lua])
       THEN /\ ref_thread' = DropRef(ref_thread, v)
            /\ doubleFree' = (doubleFree \/ ref_thread[v.lua][v.index] = Free)
       ELSE UNCHANGED <<ref_thread, doubleFree>>
    /\ vLast' = [NoVrefOp EXCEPT !.op = "drop", !.h = h,
                                 !.res = IF lua_alive[v.lua] THEN "locked" ELSE "gone",
                                 !.freed = FreedBy(ref_thread, ref_thread')]
    /\ UNCHANGED <<scopeVars, regVars, appVars, lua_alive>>

\* The interpreter is destroyed: its reference thread goes with it, and
\* try_lock of the handles that are left gives None.
LuaDestroy(l) ==
    /\ lua_alive[l]
    /\ lua_alive' = [lua_alive EXCEPT ![l] = FALSE]
    /\ ref_thread' = [ref_thread EXCEPT ![l] = [s \in Slots |-> Free]]
    /\ vLast' = [NoVrefOp EXCEPT !.op = "destroy"]
    /\ UNCHANGED <<scopeVars, regVars, appVars, vrefs, doubleFree>>

\* Fault: the two handles are not checked to be of one interpreter.
SameLuaUnchecked(a, b) == TRUE

\* assert!(self.lua == other.lua, ...)
SameLua(a, b) == a.lua = b.lua

\* ffi::lua_rawequal(lua.ref_thread(), self.index, other.index) == 1
RawEqual(rt, a, b) == rt[a.lua][a.index] = rt[a.lua][b.index]

\* PartialEq for ValueRef: the assertion, then lock() (a panic when the
\* interpreter is gone), then the raw comparison in self's reference thread.
ValueRefEq(a, b) ==
    IF ~SameLua(a, b) THEN [res |-> "panic", rawequal |-> FALSE]
    ELSE IF ~lua_alive[a.lua] THEN [res |-> "panic", rawequal |-> FALSE]
    ELSE [res |-> IF RawEqual(ref_thread, a, b) THEN "true" ELSE "false", rawequal |-> TRUE]

VrefEq(g, h) ==
    /\ vrefs[g].state = "live"
    /\ vrefs[h].state = "live"
    /\ vLast' = [NoVrefOp EXCEPT !.op = "eq", !.h = g, !.other = h,
                                 !.res = ValueRefEq(vrefs[g], vrefs[h]).res,
                                 !.rawequal = ValueRefEq(vrefs[g], vrefs[h]).rawequal]
    /\ UNCHANGED <<scopeVars, regVars, appVars, vrefs, ref_thread, lua_alive, doubleFree>>

VrefNext ==
    \/ \E h \in Handles, l \in Luas, s \in Slots, v \in LuaVals : VrefCreate(h, l, s, v)
    \/ \E h, g \in Handles : VrefAlias(h, g)
    \/ \E h, g \in Handles : VrefClone(h, g)
    \/ \E h \in Handles : VrefDrop(h)
    \/ \E l \in Luas : LuaDestroy(l)
    \/ \E g, h \in Handles : VrefEq(g, h)

\* ------------------------------------------------------- specifications

Init == ScopeInit /\ RegInit /\ AppInit /\ VrefInit

SpecScope == Init /\ [][ScopeNext]_vars

\* The scope with the engine handle shared with a second thread.
ScopeSendNext == ScopeNext \/ \E o \in Objs : OtherThreadCall(o)

SpecScopeSend == Init /\ [][ScopeSendNext]_vars

SpecRegistry == Init /\ [][RegNext]_vars

\* The keys with set_id: values are stored and replaced, and their keys
\* dropped, before and after the interpreter is gone.
RegSetIdNext ==
    \/ \E l \in Luas, nil \in BOOLEAN : CreateRegistryValue(l, nil)
    \/ \E k \in KeyIds, nil \in BOOLEAN : ReplaceRegistryValue(k, nil)
    \/ \E k \in KeyIds : KeyDrop(k)
    \/ \E l \in Luas : CloseLua(l)

SpecRegistrySetId == Init /\ [][RegSetIdNext]_vars

\* Keys dropped on several threads while the interpreter's thread sweeps:
\* the steps of the drops and of the sweep interleave.
RegConcNext ==
    \/ \E l \in Luas, nil \in BOOLEAN : CreateRegistryValue(l, nil)
    \/ \E k \in KeyIds : DropLoad(k)
    \/ \E k \in KeyIds : DropPush(k)
    \/ \E l \in Luas : SweepTake(l)
    \/ \E l \in Luas : SweepUnref(l)

SpecRegistryConc == Init /\ [][RegConcNext]_vars

SpecAppData == Init /\ [][AppNext]_vars

SpecValueRef == Init /\ [][VrefNext]_vars

\* The whole program: the components side by side. Its state space is
\* the product of theirs, so each property is checked under the
\* specification of the component it is about.
Next == ScopeNext \/ RegNext \/ AppNext \/ VrefNext

Spec == Init /\ [][Next]_vars

\* ------------------------------------------------------------ properties

Registered == 1..nobjs

\* C1: at scope end the invalidation step of every registered item's
\* destructor has completed before the first deferred thunk runs; so when a
\* payload drop panics, every item is already invalidated.
C1_InvalidationBeforeDrops ==
    (dropLog # <<>> \/ panicking) =>
        /\ taken = <<>>
        /\ \A o \in Registered : Count(invLog, o) = 1
        /\ \A o \in Registered : ~engine[o].live

\* The first of several thunks has panicked, the others are still to run.
C1_Witness ==
    /\ phase = "Dropping"
    /\ panicking
    /\ Len(dropLog) = 1
    /\ Len(to_drop) >= 1
    /\ nobjs >= 2

\* C2: once the scope has ended, every script-visible call or access on an
\* object registered in it reports the expired failure (CallbackDestructed,
\* UserDataDestructed) and never the object's data; no registered object is
\* left intact in the engine.
C2_ExpiredAfterScope ==
    /\ lastResult.after => lastResult.out \in {"CallbackDestructed", "UserDataDestructed"}
    /\ phase = "Closed" => \A o \in Registered : ~engine[o].live

\* A getter on a read-only borrowed object is called after the scope ended.
C2_Witness ==
    /\ lastResult.after
    /\ lastResult.obj \in Registered
    /\ engine[lastResult.obj].kind = "userdata_ref"
    /\ lastResult.out = "UserDataDestructed"

\* C3: the destructors' invalidation steps run in registration order (the
\* items are numbered in the order they were registered).
C3_RegistrationOrder == \A i \in 1..Len(invLog) : invLog[i] = i

\* A scope of several items has been drained.
C3_Witness == phase = "Closed" /\ Len(invLog) >= 2 /\ Len(invLog) = nobjs

\* C4: the destructors list is drained exactly once: no destructor is
\* invoked twice, an item is either still on a list or has had its
\* destructor invoked, once the drain is over every destructor has been
\* invoked once, and from the start of the drain the scope's list is empty.
C4_DrainedExactlyOnce ==
    /\ \A o \in Registered :
         Count(invLog, o) + Count([i \in 1..Len(destructors \o taken) |->
                                     (destructors \o taken)[i].ref], o) = 1
    /\ phase \in {"Dropping", "Closed", "Aborted"} => \A o \in Registered : Count(invLog, o) = 1
    /\ phase \in {"Draining", "Dropping", "Closed", "Aborted"} => destructors = <<>>
    /\ phase \in {"Dropping", "Closed", "Aborted"} => taken = <<>>

\* The drain of a scope with several items is over.
C4_Witness == phase = "Closed" /\ nobjs >= 2 /\ destructors = <<>> /\ Len(invLog) = nobjs

\* C5: a create_function_mut closure is never executing twice at the same
\* time; a call that finds it executing reports RecursiveMutCallback, starts
\* no invocation, and leaves the outer invocation running and able to return.
C5_RecursiveMutCallback ==
    /\ \A o \in Registered :
         engine[o].kind = "function_mut" =>
            /\ Count(callStack, o) <= 1
            /\ cell[o] <=> Count(callStack, o) = 1
    /\ lastResult.out = "RecursiveMutCallback" =>
            /\ engine[lastResult.obj].kind = "function_mut"
            /\ Count(callStack, lastResult.obj) = 1
            /\ ENABLED Return

\* The closure is re-entered through another function of the scope.
C5_Witness ==
    /\ lastResult.out = "RecursiveMutCallback"
    /\ Len(callStack) >= 2
    /\ callStack[1] = lastResult.obj
    /\ callStack[Len(callStack)] # lastResult.obj

\* C6 (as stated): every drop of a RegistryKey appends the key's id to the
\* shared list.
C6_DropAlwaysEnqueues == regLast.op = "drop" => regLast.flag

\* C6 (amended): a drop never frees the key's slot; it appends the key's id
\* to the shared list exactly when the id is greater than LUA_REFNIL and the
\* list is not None; the list holds exactly the ids so enqueued since the
\* last sweep, and a sweep frees exactly those, each once, and never the id
\* of a live key.
C6_DeferredReclaim ==
    /\ regLast.op = "drop" =>
         (regLast.flag <=> /\ regLast.id > LUA_REFNIL
                           /\ unref_list[keys[regLast.key].unref_list].some)
    /\ \A l \in Luas :
         unref_list[l].some =>
            /\ unref_list[l].list = Enqueued(l)
            /\ Range(unref_list[l].list) \subseteq registry[l]
    /\ regLast.op = "sweep" => regLast.flag
    /\ \A k \in KeyIds :
         (keys[k].state = "alive" /\ KeyId(keys[k]) > LUA_REFNIL
            /\ unref_list[keys[k].unref_list].some) =>
            /\ KeyId(keys[k]) \in registry[keys[k].unref_list]
            /\ KeyId(keys[k]) \notin Range(unref_list[keys[k].unref_list].list)

\* A sweep has freed the id of a dropped key while another key of the same
\* interpreter is alive.
C6_Witness ==
    /\ regLast.op = "sweep"
    /\ \E l \in Luas :
         /\ Len(lastSweep[l]) >= 1
         /\ \E k \in KeyIds :
              /\ keys[k].state = "alive"
              /\ keys[k].unref_list = l
              /\ KeyId(keys[k]) > LUA_REFNIL

\* C7: take returns the key's id and leaves the shared list unchanged; the
\* id of a taken key is never on the list and no sweep frees its slot.
C7_TakeDetaches ==
    /\ regLast.op = "take" =>
         /\ keys[regLast.key].state = "taken"
         /\ regLast.id = KeyId(keys[regLast.key])
         /\ ~regLast.flag
    /\ \A k \in KeyIds :
         (keys[k].state = "taken" /\ unref_list[keys[k].unref_list].some) =>
            /\ KeyId(keys[k]) \notin Range(unref_list[keys[k].unref_list].list)
            /\ KeyId(keys[k]) > LUA_REFNIL => KeyId(keys[k]) \in registry[keys[k].unref_list]

\* A sweep that freed another key's id has run after the take.
C7_Witness ==
    /\ regLast.op = "sweep"
    /\ \E k \in KeyIds :
         /\ keys[k].state = "taken"
         /\ KeyId(keys[k]) > LUA_REFNIL
         /\ Len(lastSweep[keys[k].unref_list]) >= 1
         /\ KeyId(keys[k]) \in registry[keys[k].unref_list]

\* C8: two keys compare equal exactly when they have the same id and share
\* the same list; keys of different interpreters never compare equal.
C8_KeyEquality ==
    regLast.op = "eq" =>
        LET a == keys[regLast.key]
            b == keys[regLast.other]
        IN /\ regLast.flag <=> (a.registry_id = b.registry_id /\ a.unref_list = b.unref_list)
           /\ a.unref_list # b.unref_list => ~regLast.flag

\* Two keys with id 0 of two interpreters have been compared.
C8_Witness ==
    /\ regLast.op = "eq"
    /\ keys[regLast.key].registry_id = 0
    /\ keys[regLast.other].registry_id = 0
    /\ keys[regLast.key].unref_list # keys[regLast.other].unref_list
    /\ ~regLast.flag

\* C9: while a borrow guard is outstanding try_insert returns the offered
\* value as an error and insert and remove panic, all three leaving the
\* container as it was; with no guard outstanding none of them fails.
C9_InsertRemoveGate ==
    /\ (appLast.op = "try_insert" /\ appLast.out > 0) =>
         appLast.res = "err" /\ appLast.ret = appLast.val /\ appLast.same
    /\ (appLast.op \in {"insert", "remove"} /\ appLast.out > 0) =>
         appLast.res = "panic" /\ appLast.same
    /\ (appLast.op \in {"try_insert", "insert", "remove"} /\ appLast.out = 0) =>
         appLast.res \notin {"err", "panic"}

\* try_insert was refused for a type other than the borrowed one.
C9_Witness ==
    /\ appLast.op = "try_insert"
    /\ appLast.res = "err"
    /\ appLast.out > 0
    /\ refs[appLast.type] = 0 /\ muts[appLast.type] = 0

\* C10: per slot the guards outstanding are shared borrows only, or one
\* exclusive borrow only; a borrow or borrow_mut that would break this hands
\* out no guard.
C10_SharedXorExclusive ==
    /\ \A t \in Types : muts[t] = 0 \/ (muts[t] = 1 /\ refs[t] = 0)
    /\ (appLast.op \in {"borrow", "borrow_mut"} /\ appLast.conf) => appLast.res # "ok"

\* borrow_mut was refused while two shared borrows of the slot are held.
C10_Witness ==
    /\ appLast.op = "borrow_mut"
    /\ appLast.conf
    /\ appLast.res = "panic"
    /\ refs[appLast.type] = 2

\* C19: borrows are guarded per type and insert/remove are gated globally:
\* a borrow or borrow_mut of a present type with no conflicting guard of
\* that same type succeeds whatever guards other types have, while a guard
\* of any type makes try_insert fail and insert and remove panic for every
\* type, also for one that has no guard of its own.
C19_PerTypeGuardGlobalGate ==
    /\ (/\ appLast.op \in {"borrow", "borrow_mut"}
        /\ ~appLast.conf
        /\ container[appLast.type].present) => appLast.res = "ok"
    /\ (/\ appLast.op \in {"try_insert", "insert", "remove"}
        /\ appLast.out > 0
        /\ refs[appLast.type] = 0
        /\ muts[appLast.type] = 0) =>
          /\ appLast.res = (IF appLast.op = "try_insert" THEN "err" ELSE "panic")
          /\ appLast.same

\* An exclusive borrow of one type succeeded while another type is
\* exclusively borrowed.
C19_Witness ==
    /\ appLast.op = "borrow_mut"
    /\ appLast.res = "ok"
    /\ appLast.out > 0
    /\ \E u \in Types \ {appLast.type} : muts[u] = 1

\* C20: the container-wide counter equals the number of guards alive and is
\* never negative; a successful borrow or borrow_mut raises it by one, a
\* failed one leaves it alone, a guard drop lowers it by one, and with no
\* guard alive it is 0, so that insert and remove are not refused.
C20_CounterIsOutstanding ==
    /\ borrow = Outstanding
    /\ borrow >= 0
    /\ (appLast.op \in {"borrow", "borrow_mut"}) =>
          borrow = (IF appLast.res = "ok" THEN appLast.out + 1 ELSE appLast.out)
    /\ (appLast.op \in {"drop_ref", "drop_ref_mut"}) => borrow = appLast.out - 1
    /\ (Outstanding = 0) => ~ContainerBorrowed

\* The last of several guards has been dropped and the counter is back at 0.
C20_Witness ==
    /\ appLast.op \in {"drop_ref", "drop_ref_mut"}
    /\ appLast.out = 1
    /\ Outstanding = 0
    /\ borrow = 0

\* C11: every handle made by create or clone owns a slot of its own: clone
\* takes a free slot and copies the value into it; dropping a handle frees
\* its own slot and no other when its drop flag is set and the interpreter
\* can be locked, and frees nothing otherwise; no slot is freed twice and
\* the slot of a live owning handle stays allocated.
C11_SlotOwnership ==
    /\ ~doubleFree
    /\ \A h \in Handles :
         (vrefs[h].state = "live" /\ vrefs[h].drop /\ lua_alive[vrefs[h].lua]) =>
           ref_thread[vrefs[h].lua][vrefs[h].index] # Free
    /\ \A g, h \in Handles :
         (/\ g # h
          /\ vrefs[g].state = "live" /\ vrefs[g].drop
          /\ vrefs[h].state = "live" /\ vrefs[h].drop
          /\ vrefs[g].lua = vrefs[h].lua) => vrefs[g].index # vrefs[h].index
    /\ (vLast.op = "clone" /\ vLast.res = "ok") =>
         LET new == vrefs[vLast.h]
             old == vrefs[vLast.other]
         IN /\ new.drop
            /\ vLast.fresh
            /\ new.lua = old.lua
            /\ new.index # old.index
            /\ ref_thread[new.lua][new.index] = ref_thread[old.lua][old.index]
    /\ (vLast.op = "drop") =>
         LET v == vrefs[vLast.h] IN
         vLast.freed = (IF v.drop /\ vLast.res = "locked" THEN {<<v.lua, v.index>>} ELSE {})

\* An owning handle was dropped and freed its slot while its clone keeps
\* its own, after a non-dropping handle was dropped.
C11_Witness ==
    /\ vLast.op = "drop"
    /\ vrefs[vLast.h].drop
    /\ vLast.freed = {<<vrefs[vLast.h].lua, vrefs[vLast.h].index>>}
    /\ \E g \in Handles :
         /\ vrefs[g].state = "live" /\ vrefs[g].drop
         /\ vrefs[g].lua = vrefs[vLast.h].lua
         /\ ref_thread[vrefs[g].lua][vrefs[g].index] # Free
    /\ \E a \in Handles : vrefs[a].state = "dropped" /\ ~vrefs[a].drop

\* C12: comparing two handles of different interpreters panics and no raw
\* comparison is made; a boolean comes only from two handles of one
\* interpreter, and it is the raw equality of their slots.
C12_CrossInstanceEqPanics ==
    (vLast.op = "eq") =>
      LET a == vrefs[vLast.h]
          b == vrefs[vLast.other]
      IN /\ (a.lua # b.lua) => (vLast.res = "panic" /\ ~vLast.rawequal)
         /\ (vLast.res \in {"true", "false"}) => a.lua = b.lua
         /\ (a.lua = b.lua /\ lua_alive[a.lua]) =>
              /\ vLast.rawequal
              /\ (vLast.res = "true") <=> (ref_thread[a.lua][a.index] = ref_thread[b.lua][b.index])
              /\ vLast.res \in {"true", "false"}

\* Two handles of two interpreters whose slots have the same index have
\* been compared.
C12_Witness ==
    /\ vLast.op = "eq"
    /\ vrefs[vLast.h].lua # vrefs[vLast.other].lua
    /\ vrefs[vLast.h].index = vrefs[vLast.other].index
    /\ lua_alive[vrefs[vLast.h].lua] /\ lua_alive[vrefs[vLast.other].lua]
    /\ ref_thread[vrefs[vLast.h].lua][vrefs[vLast.h].index] # Free
    /\ ref_thread[vrefs[vLast.other].lua][vrefs[vLast.other].index] # Free
    /\ vLast.res = "panic"

\* C13: after the scope has ended no per-instance metatable registered by a
\* create_userdata of the scope is still registered.
C13_MetatablesDeregistered ==
    (phase = "Closed") => mt_registered = {}

\* C14: the host value behind a create_userdata_ref / create_userdata_ref_mut
\* / create_any_userdata_ref(_mut) object is never dropped or changed, it
\* stays borrowed from the caller through the scope and after it; the seal
\* destructor detaches the storage of an object that is still live, so that
\* no such object is live once the scope has ended.
C14_BorrowedValueUntouched ==
    /\ \A o \in Registered : engine[o].kind \in RefKinds => host[o] = "borrowed"
    /\ \A i \in 1..Len(invLog) :
         engine[invLog[i]].kind \in RefKinds => ~engine[invLog[i]].live
    /\ (phase = "Closed") =>
         \A o \in Registered : engine[o].kind \in RefKinds => ~engine[o].live

\* The scope has ended after the storage of a borrowed value was detached by
\* its seal destructor and dropped.
C14_Witness ==
    /\ phase = "Closed"
    /\ \E o \in Registered :
         /\ engine[o].kind \in RefKinds
         /\ o \notin gone
         /\ Count(invLog, o) = 1
         /\ Count(dropLog, o) = 1
         /\ host[o] = "borrowed"

C16_EmptyScopeNoOp ==
    [][(phase = "GuardDropped" /\ nobjs = 0) =>
         /\ phase' = "Closed"
         /\ lock' = lock
         /\ engine' = engine
         /\ mt_registered' = mt_registered
         /\ payload' = payload
         /\ to_drop' = <<>>
         /\ invLog' = <<>>
         /\ dropLog' = <<>>]_vars

\* A scope with no registration has ended.
C16_Witness ==
    /\ phase = "Closed"
    /\ nobjs = 0
    /\ lock = 0
    /\ invLog = <<>>

\* The state of the scope in the spec's terms: Draining from the moment its
\* drop begins until the last thunk has been dropped.
ScopeState ==
    CASE phase = "Open" -> "Open"
      [] phase \in {"GuardDropped", "Draining", "Dropping"} -> "Draining"
      [] phase = "Closed" -> "Closed"
      [] OTHER -> "Aborted"

C18_LockHeldUntilInvalidated ==
    /\ (/\ phase \in {"Open", "GuardDropped", "Draining"}
        /\ nobjs >= 1
        /\ Len(invLog) < nobjs) => lock >= 1
    /\ ~(intruder.out = "ran" /\ ~intruder.after)

\* C23: the RefCell of a create_function_mut closure is free again when an
\* invocation of it has ended with a value or with an error; a rejected
\* invocation takes nothing and leaves the running invocation's borrow in
\* place; and a call of a live closure that is not on the call stack runs
\* the closure and is not answered with RecursiveMutCallback.
C23_GuardReleasedAfterCall ==
    [][/\ \A o \in Registered :
            (/\ engine[o].kind = "function_mut"
             /\ callStack # <<>>
             /\ callStack[Len(callStack)] = o
             /\ Len(callStack') < Len(callStack)) =>
               (~cell'[o] /\ lastResult'.out \in {"ok", "error"})
       /\ \A o \in Registered :
            (/\ CallFunction(o)
             /\ engine[o].kind = "function_mut"
             /\ Count(callStack, o) >= 1) =>
               /\ lastResult'.out = "RecursiveMutCallback"
               /\ cell' = cell
               /\ callStack' = callStack
       /\ \A o \in Registered :
            (/\ CallFunction(o)
             /\ engine[o].kind = "function_mut"
             /\ engine[o].live
             /\ Count(callStack, o) = 0) =>
               /\ lastResult'.out = "running"
               /\ callStack' = Append(callStack, o)
               /\ cell'[o]]_vars

\* The outermost invocation of a create_function_mut closure has returned an
\* error while the scope is open, and the closure's RefCell is free.
C23_Witness ==
    /\ phase = "Open"
    /\ callStack = <<>>
    /\ lastResult.out = "error"
    /\ engine[lastResult.obj].kind = "function_mut"
    /\ engine[lastResult.obj].live
    /\ ~cell[lastResult.obj]

\* The objects whose destructor hands a thunk to the scope end: all but the
\* ones destructed before it.
WithThunk == Registered \ gone

\* C24 (as stated): no payload is dropped twice, and when the teardown is
\* over, by return, by an unwinding panic or by an abort, the payload of
\* every thunk has been dropped.
C24_AllPayloadsDropped ==
    /\ \A o \in Registered : Count(dropLog, o) <= 1
    /\ (phase \in {"Closed", "Aborted"}) =>
         /\ to_drop = <<>>
         /\ \A o \in WithThunk : Count(dropLog, o) = 1

\* C24 (amended): no payload is dropped twice and none is lost before its
\* drop; while thunks are left the drop goes on, also after one payload's
\* drop has panicked, so that a teardown that ends by return or by one
\* unwinding panic has dropped the payload of every thunk; only a second
\* panic during the unwinding ends it early, by aborting the process.
C24_DroppedOnceUnlessAbort ==
    /\ \A o \in Registered : Count(dropLog, o) + Count(to_drop, o) <= 1
    /\ \A o \in WithThunk :
         Count(invLog, o) = 1 => Count(dropLog, o) + Count(to_drop, o) = 1
    /\ (phase = "Dropping" /\ to_drop # <<>>) => ENABLED DropThunk
    /\ (phase = "Closed") =>
         /\ to_drop = <<>>
         /\ \A o \in WithThunk : Count(dropLog, o) = 1
    /\ (phase = "Aborted") => (panicking /\ Len(dropLog) >= 2)

\* The teardown has ended with a panic unwinding, after every payload was
\* dropped; the last one dropped cannot panic, so that the panic came from an
\* earlier one.
C24_Witness ==
    /\ phase = "Closed"
    /\ panicking
    /\ nobjs >= 2
    /\ Len(dropLog) = nobjs
    /\ ~CanPanic(dropLog[Len(dropLog)])

\* C22: the drop of a key whose id is not greater than LUA_REFNIL, or whose
\* list is None, leaves every list as it was; any other drop appends one id
\* to the key's list, the id the key has at that moment, which is the one
\* set_id stored last; in both cases the drop completes.
C22_DropEnqueuesCurrentId ==
    [][/\ \A k \in KeyIds :
            KeyDrop(k) =>
              LET l  == keys[k].unref_list
                  id == keys[k].registry_id
              IN /\ keys'[k].state = "dropped"
                 /\ regLast'.op = "drop" /\ regLast'.id = id
                 /\ \A o \in Luas \ {l} : unref_list'[o] = unref_list[o]
                 /\ unref_list'[l] =
                      (IF id <= LUA_REFNIL \/ ~unref_list[l].some
                       THEN unref_list[l]
                       ELSE SomeList(Append(unref_list[l].list, id)))
       /\ (regLast'.op = "set_id" /\ regLast' # regLast) =>
            keys'[regLast'.key].registry_id = regLast'.id]_vars

\* A key made for nil was given a slot by set_id and then dropped: the slot's
\* id has been appended.
C22_Witness ==
    /\ regLast.op = "drop"
    /\ regLast.flag
    /\ regLast.id > LUA_REFNIL
    /\ keys[regLast.key].made = LUA_REFNIL
    /\ unref_list[keys[regLast.key].unref_list].list # <<>>

\* The keys of interpreter l whose drop has pushed slot id i.
DroppedWith(l, i) ==
    {k \in KeyIds : /\ keys[k].state = "dropped"
                    /\ keys[k].unref_list = l
                    /\ keys[k].registry_id = i}

\* C21: however the steps of concurrent drops and of the sweeps interleave,
\* the slot id of every dropped key is accounted for exactly once: it is
\* either pending in the list, once, or was taken by exactly one sweep, once;
\* and a pending or taken id is not freed before its sweep frees it.
C21_NoIdLostOrDuplicated ==
    \A l \in Luas :
      /\ \A i \in RefIds :
           /\ Count(unref_list[l].list, i) + Count(swept[l], i) = Cardinality(DroppedWith(l, i))
           /\ Count(unref_list[l].list, i) + Count(sweeping[l], i) <= 1
           /\ Count(lastSweep[l], i) <= 1
      /\ Range(unref_list[l].list) \cup Range(sweeping[l]) \subseteq registry[l]

\* A key was dropped while a sweep that had taken another key's id was still
\* freeing: its id waits in the new list for the next sweep.
C21_Witness ==
    /\ regLast.op = "drop"
    /\ regLast.flag
    /\ LET l == keys[regLast.key].unref_list
       IN /\ sweeping[l] # <<>>
          /\ unref_list[l].list = <<regLast.id>>
          /\ regLast.id \notin Range(swept[l])

====
